---- MODULE Spec2Model ----
(***************************************************************************)
(* Model of the band-structure / density-of-states retrieval calls of      *)
(* mp_api/routes/electronic_structure.py (BandStructureRester, DosRester). *)
(* One behaviour is one client call: the arguments are drawn in Init, the  *)
(* answers of the document endpoint and of the object endpoint are drawn   *)
(* when the pending request is answered.                                   *)
(***************************************************************************)
EXTENDS Integers, Sequences, FiniteSets, TLC

\* ---------------------------------------------------------------- bounds
NumMaterials == 2
NumTasks == 2
MaxLen == 5
NumRequests == 2
MaxVal == 1
MaxPoints == 2
MaxDocs == 2

\* ------------------------------------------------------------ identifiers
MaterialNames == <<"mp-149", "mp-66", "mp-13">>
TaskNames == <<"mp-1", "mp-2", "mp-3", "mp-4">>
MaterialIds == {MaterialNames[i] : i \in 1..NumMaterials}
TaskIds == {TaskNames[i] : i \in 1..NumTasks}

\* BSPathType, the k-path conventions a band structure can be stored under
PathTypes == {"setyawan_curtarolo", "hinuma", "latimer_munro"}
\* keys of the total map of a dos sub-document (Spin.up, Spin.down)
SpinKeys == {"1", "-1"}

BSMaterial == "get_bandstructure_from_material_id"
BSTask == "get_bandstructure_from_task_id"
DosMaterial == "get_dos_from_material_id"
DosTask == "get_dos_from_task_id"
MaterialMethods == {BSMaterial, DosMaterial}
TaskMethods == {BSTask, DosTask}
Methods == MaterialMethods \cup TaskMethods

\* ------------------------------------------------------------ Python values
None == [tag |-> "None"]
Unset == [tag |-> "Unset"]
Missing == [tag |-> "Missing"]
IsNone(v) == v.tag = "None"
IsSet(v) == v.tag # "Unset"

\* a dict is its set of key/value items; Dict builds one from a function
Dict(f) == [tag |-> "dict", items |-> {[key |-> k, value |-> f[k]] : k \in DOMAIN f}]
Keys(d) == {i.key : i \in d.items}
Get(d, k) == (CHOOSE i \in d.items : i.key = k).value
List(s) == [tag |-> "list", items |-> s]
Number(v) == [tag |-> "number", v |-> v]
Bytes(b) == [tag |-> "bytes", b |-> b]

Ok(v) == [ok |-> TRUE, val |-> v]
Raise(e) == [ok |-> FALSE, err |-> e]

\* ------------------------------------------------------------------ errors
MPRestError(msg) == [tag |-> "Error", type |-> "MPRestError", msg |-> msg]
KeyError(k) == [tag |-> "Error", type |-> "KeyError", msg |-> <<k>>]
TypeError(m) == [tag |-> "Error", type |-> "TypeError", msg |-> <<m>>]
StageError(t) == [tag |-> "Error", type |-> t, msg |-> <<>>]

NoBandStructureData(path_type, material_id) ==
    MPRestError(<<"No ", path_type, " band structure data found for ", material_id>>)
NoUniformData(material_id) ==
    MPRestError(<<"No uniform band structure data found for ", material_id>>)
NoDosData(material_id) ==
    MPRestError(<<"No density of states data found for ", material_id>>)
NoObjectFound == MPRestError(<<"No object found">>)
NoBandStructureObject == MPRestError(<<"No band structure object found.">>)
NoDosObject == MPRestError(<<"No density of states object found.">>)

\* errors raised by the REST client itself (get_data_by_id, _query_resource)
StatusCodes == {"404", "500"}
TransportErrors ==
    {MPRestError(<<"REST query returned with error status code ", c>>) : c \in StatusCodes}

\* --------------------------------------------------------------- documents
Entry(t) == Dict([task_id |-> t])
Entries == {Entry(t) : t \in TaskIds}
BandstructureValues ==
    {None} \cup {Dict(m) : m \in [PathTypes -> {None} \cup Entries]}
TotalMaps == UNION {[K -> Entries] : K \in SUBSET SpinKeys}
DosValues ==
    {None} \cup {Dict([total |-> None])}
           \cup {Dict([total |-> Dict(m)]) : m \in TotalMaps}
Docs == [bandstructure : BandstructureValues, dos : DosValues]

\* truthiness of a Python value (None and empty containers are falsy)
Truthy(v) ==
    CASE v.tag = "None" -> FALSE
      [] v.tag = "dict" -> v.items # {}
      [] v.tag = "list" -> Len(v.items) > 0
      [] v.tag = "number" -> v.v # 0
      [] OTHER -> TRUE

\* ---------------------------------------------------------------- requests
\* es_rester.get_data_by_id(document_id=material_id, fields=[...])
DocRequest(material_id, fields) ==
    [api |-> "get_data_by_id", document_id |-> material_id, fields |-> fields]

\* self._query_resource(criteria={"task_id": ..., "_all_fields": True}, suburl="object",
\*                       use_document_model=False, num_chunks=1, chunk_size=1)
ObjectRequest(task_id) ==
    [api |-> "_query_resource",
     criteria |-> [task_id |-> task_id, _all_fields |-> TRUE],
     suburl |-> "object",
     use_document_model |-> FALSE,
     num_chunks |-> 1,
     chunk_size |-> 1]

\* every band structure call asking for the bandstructure field
RequestedFieldsBandstructure(method, line_mode) ==
    IF method = BSMaterial THEN <<"bandstructure">> ELSE <<"dos">>

\* the document fields a material-id call asks for
RequestedFields(method, line_mode) ==
    IF method = BSMaterial /\ line_mode THEN <<"bandstructure">> ELSE <<"dos">>

\* the attribute of the fetched document the call reads
ReadField(method, line_mode, doc) ==
    IF method = BSMaterial /\ line_mode THEN doc.bandstructure ELSE doc.dos

\* ------------------------------------------------------------ task resolution
\* the line_mode branch raising the uniform branch's message for a null field
ResolveLineModeUniformMessage(bs_data, path_type, material_id) ==
    IF IsNone(bs_data)
    THEN Raise(NoUniformData(material_id))
    ELSE IF Truthy(Get(bs_data, path_type))
         THEN Ok(Get(Get(bs_data, path_type), "task_id"))
         ELSE Raise(NoBandStructureData(path_type, material_id))

\* the line_mode branch falling back to the default path type's entry
ResolveLineModeFallback(bs_data, path_type, material_id) ==
    IF IsNone(bs_data)
    THEN Raise(NoBandStructureData(path_type, material_id))
    ELSE IF Truthy(Get(bs_data, path_type))
         THEN Ok(Get(Get(bs_data, path_type), "task_id"))
         ELSE IF Truthy(Get(bs_data, "setyawan_curtarolo"))
              THEN Ok(Get(Get(bs_data, "setyawan_curtarolo"), "task_id"))
              ELSE Raise(NoBandStructureData(path_type, material_id))

\* line_mode branch of get_bandstructure_from_material_id
ResolveLineMode(bs_data, path_type, material_id) ==
    IF IsNone(bs_data)
    THEN Raise(NoBandStructureData(path_type, material_id))
    ELSE IF Truthy(Get(bs_data, path_type))
         THEN Ok(Get(Get(bs_data, path_type), "task_id"))
         ELSE Raise(NoBandStructureData(path_type, material_id))

\* uniform branch of get_bandstructure_from_material_id (reads the dos field)
ResolveUniform(bs_data, material_id) ==
    IF IsNone(bs_data)
    THEN Raise(NoUniformData(material_id))
    ELSE IF Truthy(Get(bs_data, "total"))
         THEN IF "1" \in Keys(Get(bs_data, "total"))
              THEN Ok(Get(Get(Get(bs_data, "total"), "1"), "task_id"))
              ELSE Raise(KeyError("1"))
         ELSE Raise(NoUniformData(material_id))

\* the dos resolution probing total for "1" and reporting its absence as no data
ResolveDosProbing(dos, material_id) ==
    IF Truthy(dos)
    THEN IF IsNone(Get(dos, "total"))
         THEN Raise(TypeError("'NoneType' object is not subscriptable"))
         ELSE IF "1" \in Keys(Get(dos, "total"))
              THEN Ok(Get(Get(Get(dos, "total"), "1"), "task_id"))
              ELSE Raise(NoDosData(material_id))
    ELSE Raise(NoDosData(material_id))

\* resolution of get_dos_from_material_id
ResolveDos(dos, material_id) ==
    IF Truthy(dos)
    THEN IF IsNone(Get(dos, "total"))
         THEN Raise(TypeError("'NoneType' object is not subscriptable"))
         ELSE IF "1" \in Keys(Get(dos, "total"))
              THEN Ok(Get(Get(Get(dos, "total"), "1"), "task_id"))
              ELSE Raise(KeyError("1"))
    ELSE Raise(NoDosData(material_id))

ResolveTask(method, line_mode, path_type, material_id, field) ==
    IF method = BSMaterial
    THEN IF line_mode
         THEN ResolveLineMode(field, path_type, material_id)
         ELSE ResolveUniform(field, material_id)
    ELSE ResolveDos(field, material_id)

\* --------------------------------------------------------------- object fetch
\* a transport string: characters of the base64 alphabet, the pad, others
B64Alphabet == {"z", "d"}
Pad == "="
Chars == B64Alphabet \cup {Pad, "!"}
Strings == UNION {[1..n -> Chars] : n \in 0..MaxLen}

\* what _query_resource can answer: no data field, data null, or a list of
\* at most chunk_size = 1 transport strings
Response(d) == [tag |-> "response", data |-> d]
Responses ==
    {Response(Missing), Response(None), Response(List(<<>>))}
        \cup {Response(List(<<s>>)) : s \in Strings}

\* result.get("data", None)
GetData(result) == IF result.data.tag = "Missing" THEN None ELSE result.data

\* the check of the answer testing the truth value of the data field
FromTaskIdTruthy(result) ==
    IF Truthy(GetData(result))
    THEN Ok(result.data)
    ELSE Raise(NoObjectFound)

\* get_bandstructure_from_task_id / get_dos_from_task_id on the answer
FromTaskId(result) ==
    IF ~IsNone(GetData(result))
    THEN Ok(result.data)
    ELSE Raise(NoObjectFound)

NoObjectError(method) ==
    IF method = BSMaterial THEN NoBandStructureObject ELSE NoDosObject

\* -------------------------------------------------------------------- decode
\* number of pad characters at the end of s
TrailingPads(s) ==
    CHOOSE p \in 0..Len(s) :
        /\ \A i \in (Len(s) - p + 1)..Len(s) : s[i] = Pad
        /\ (p < Len(s) => s[Len(s) - p] # Pad)

\* the interpreters the package runs on, by their base64.b64decode(validate=True):
\* CPython up to 3.10 matches [A-Za-z0-9+/]*={0,2} and decodes leniently, 3.11 and
\* 3.12 decode in strict mode, 3.13 also rejects padding after whole quanta
Interpreters == {"3.10", "3.12", "3.13"}

\* base64.b64decode(s, validate=True) on interpreter py accepts s: only alphabet
\* characters, then only padding; the padding has to complete the last quantum
\* of four characters, and what is accepted beside that depends on py
B64Valid(py, s) ==
    LET p == TrailingPads(s)
        body == SubSeq(s, 1, Len(s) - p)
        r == Len(body) % 4
        completes == CASE r = 0 -> p = 0
                       [] r = 1 -> FALSE
                       [] r = 2 -> p = 2
                       [] r = 3 -> p = 1
    IN  /\ \A i \in 1..Len(body) : body[i] \in B64Alphabet
        /\ IF py = "3.10"
           THEN p <= 2 /\ (completes \/ r = 0 \/ (r = 3 /\ p = 2))
           ELSE IF py = "3.12"
           THEN completes \/ (r = 0 /\ Len(body) > 0)
           ELSE completes

\* the decoded bytes: one byte per data character of the string
B64Decode(py, s) ==
    IF B64Valid(py, s)
    THEN Ok(Bytes(SubSeq(s, 1, Len(s) - TrailingPads(s))))
    ELSE Raise(StageError("binascii.Error"))

\* zlib.decompress: a stream is the header byte "z" followed by the content
ZlibDecompress(bytes) ==
    IF Len(bytes.b) >= 1 /\ bytes.b[1] = "z"
    THEN Ok(Bytes(Tail(bytes.b)))
    ELSE Raise(StageError("zlib.error"))

\* msgpack.unpackb: "z" alone packs the empty map, "d" followed by a value packs
\* the map {"data": value}. A value is "z", the empty map, or "d" and one byte
\* more, a map with "@module" and "@class" that the second byte stands for.
\* Input that ends before the object is complete raises ValueError, bytes after
\* the object raise msgpack.ExtraData, a byte that starts no object raises
\* msgpack.FormatError
MsgpackUnpack(bytes) ==
    LET b == bytes.b
        size == IF b # <<>> /\ b[1] = "z" THEN 1
                ELSE IF Len(b) >= 2 /\ b[2] = "z" THEN 2
                ELSE 3
    IN  IF b # <<>> /\ b[1] \notin {"z", "d"}
        THEN Raise(StageError("msgpack.FormatError"))
        ELSE IF Len(b) < size
        THEN Raise([tag |-> "Error", type |-> "ValueError",
                    msg |-> <<"Unpack failed: incomplete input">>])
        ELSE IF Len(b) > size
        THEN Raise([tag |-> "Error", type |-> "msgpack.ExtraData",
                    msg |-> <<"unpack(b) received extra data.">>])
        ELSE IF size = 1 THEN Ok(Dict(<<>>))
        ELSE IF size = 2 THEN Ok(Dict([data |-> Dict(<<>>)]))
        ELSE Ok(Dict([data |-> Dict([k \in {"@module", "@class"} |-> b[3]])]))

\* MontyDecoder().process_decoded(json_data["data"]): a map with "@module" and
\* "@class" becomes the object its class builds, "d" standing for a class that
\* can be imported and "z" for a module that cannot; a value without the two
\* keys comes back as it is
ProcessDecoded(json_data) ==
    IF "data" \notin Keys(json_data)
    THEN Raise(KeyError("data"))
    ELSE LET d == Get(json_data, "data")
         IN  IF {"@module", "@class"} \subseteq Keys(d)
             THEN IF Get(d, "@class") = "d"
                  THEN Ok([tag |-> "object", from |-> d])
                  ELSE Raise(StageError("ImportError"))
             ELSE Ok(d)

\* --------------------------------------------------------------------- state
VARIABLES
    method,        \* the client method that was called
    material_id,   \* its material_id argument (None for the task-id methods)
    path_type,     \* its path_type argument
    line_mode,     \* its line_mode argument
    task_id,       \* the task_id argument, or bs_task_id / dos_task_id once resolved
    pc,            \* the position of the call
    trace,         \* the positions the call went through, in order
    requests,      \* the requests issued to the REST client, in order
    bs_data,       \* bs_data / dos_data["dos"]: the document field that was read
    result,        \* the answer of _query_resource
    bs_obj,        \* bs_obj / dos_obj: what get_*_from_task_id returned
    b64_bytes,     \* output of base64.b64decode
    packed_bytes,  \* output of zlib.decompress
    json_data,     \* output of msgpack.unpackb
    ret,           \* the value the call returned
    error          \* the exception the call raised

vars == <<method, material_id, path_type, line_mode, task_id, pc, trace, requests,
          bs_data, result, bs_obj, b64_bytes, packed_bytes, json_data, ret, error>>

args == <<method, material_id, path_type, line_mode>>
decodeVars == <<b64_bytes, packed_bytes, json_data>>

\* state outside the frame of one call
VARIABLES
    store,         \* the contents of the two endpoints while several calls run
    frames,        \* the frames of the calls that are not running
    running,       \* the call whose frame the variables above hold
    op,            \* the attributes of the SearchStatsQuery instance
    reqs           \* the requests the SearchStatsQuery instance serves

concVars == <<store, frames, running>>
statsVars == <<op, reqs>>
rest == <<concVars, statsVars>>

\* one call on its own: no other frames, contents of the endpoints left open
SingleCall ==
    /\ store = Unset
    /\ frames = <<>>
    /\ running = 1

\* no SearchStatsQuery instance
NoOperator ==
    /\ op = Unset
    /\ reqs = <<>>

Init ==
    /\ method \in Methods
    /\ IF method \in MaterialMethods
       THEN /\ material_id \in MaterialIds
            /\ task_id = None
       ELSE /\ material_id = None
            /\ task_id \in TaskIds
    /\ IF method = BSMaterial
       THEN /\ path_type \in PathTypes
            /\ line_mode \in BOOLEAN
       ELSE /\ path_type = None
            /\ line_mode = None
    /\ pc = "START"
    /\ trace = <<"START">>
    /\ requests = <<>>
    /\ bs_data = Unset
    /\ result = Unset
    /\ bs_obj = Unset
    /\ b64_bytes = Unset
    /\ packed_bytes = Unset
    /\ json_data = Unset
    /\ ret = Unset
    /\ error = None
    /\ SingleCall
    /\ NoOperator

Goto(state) ==
    /\ pc' = state
    /\ trace' = Append(trace, state)

Fail(e) ==
    /\ Goto("FAILED")
    /\ error' = e

\* a material-id call builds its ElectronicStructureRester and asks for the document
IssueDocFetch ==
    /\ pc = "START"
    /\ method \in MaterialMethods
    /\ requests' = Append(requests, DocRequest(material_id, RequestedFields(method, line_mode)))
    /\ Goto("RESOLVING_TASK")
    /\ UNCHANGED <<args, rest, task_id, bs_data, result, bs_obj, decodeVars, ret, error>>

\* get_data_by_id returns a document and the call reads its field
DocFetchReturns ==
    /\ pc = "RESOLVING_TASK"
    /\ ~IsSet(bs_data)
    /\ \E doc \in Docs : bs_data' = ReadField(method, line_mode, doc)
    /\ UNCHANGED <<args, rest, task_id, pc, trace, requests, result, bs_obj, decodeVars, ret, error>>

\* the lookup without its raise statements: a failed lookup falls through to the
\* object request
ResolveFallThrough ==
    /\ pc = "RESOLVING_TASK"
    /\ IsSet(bs_data)
    /\ LET r == ResolveTask(method, line_mode, path_type, material_id, bs_data)
       IN  /\ task_id' = IF r.ok THEN r.val ELSE None
           /\ requests' = Append(requests, ObjectRequest(IF r.ok THEN r.val ELSE None))
           /\ Goto("FETCHING_OBJECT")
           /\ UNCHANGED error
    /\ UNCHANGED <<args, rest, bs_data, result, bs_obj, decodeVars, ret>>

\* the task id is looked up in the field that was read and, if found,
\* get_*_from_task_id issues the object request
Resolve ==
    /\ pc = "RESOLVING_TASK"
    /\ IsSet(bs_data)
    /\ LET r == ResolveTask(method, line_mode, path_type, material_id, bs_data)
       IN  IF r.ok
           THEN /\ task_id' = r.val
                /\ requests' = Append(requests, ObjectRequest(r.val))
                /\ Goto("FETCHING_OBJECT")
                /\ UNCHANGED error
           ELSE /\ Fail(r.err)
                /\ UNCHANGED <<task_id, requests>>
    /\ UNCHANGED <<args, rest, bs_data, result, bs_obj, decodeVars, ret>>

\* get_data_by_id raises
DocFetchFails ==
    /\ pc = "RESOLVING_TASK"
    /\ ~IsSet(bs_data)
    /\ \E e \in TransportErrors : Fail(e)
    /\ UNCHANGED <<args, rest, task_id, requests, bs_data, result, bs_obj, decodeVars, ret>>

\* a task-id call issues the object request at once
IssueObjectFetch ==
    /\ pc = "START"
    /\ method \in TaskMethods
    /\ requests' = Append(requests, ObjectRequest(task_id))
    /\ Goto("FETCHING_OBJECT")
    /\ UNCHANGED <<args, rest, task_id, bs_data, result, bs_obj, decodeVars, ret, error>>

\* _query_resource returns its answer
ObjectFetchReturns ==
    /\ pc = "FETCHING_OBJECT"
    /\ ~IsSet(result)
    /\ \E resp \in Responses : result' = resp
    /\ UNCHANGED <<args, rest, task_id, pc, trace, requests, bs_data, bs_obj, decodeVars, ret, error>>

\* get_*_from_task_id checks the data field of the answer; a task-id call returns
\* it, a material-id call checks that it is non-empty before decoding it
CheckObject ==
    /\ pc = "FETCHING_OBJECT"
    /\ IsSet(result)
    /\ LET r == FromTaskId(result)
       IN  IF ~r.ok
           THEN /\ Fail(r.err)
                /\ UNCHANGED <<bs_obj, ret>>
           ELSE IF method \in TaskMethods
           THEN /\ ret' = r.val
                /\ Goto("DONE")
                /\ UNCHANGED <<bs_obj, error>>
           ELSE /\ bs_obj' = r.val
                /\ UNCHANGED ret
                /\ IF Truthy(r.val)
                   THEN /\ Goto("DECODING")
                        /\ UNCHANGED error
                   ELSE Fail(NoObjectError(method))
    /\ UNCHANGED <<args, rest, task_id, requests, bs_data, result, decodeVars>>

\* a failed object request being issued a second time
ObjectFetchFailsRetry ==
    /\ pc = "FETCHING_OBJECT"
    /\ ~IsSet(result)
    /\ IF Len(requests) < 3
       THEN /\ requests' = Append(requests, ObjectRequest(task_id))
            /\ UNCHANGED <<pc, trace, error>>
       ELSE /\ \E e \in TransportErrors : Fail(e)
            /\ UNCHANGED requests
    /\ UNCHANGED <<args, rest, task_id, bs_data, result, bs_obj, decodeVars, ret>>

\* _query_resource raises
ObjectFetchFails ==
    /\ pc = "FETCHING_OBJECT"
    /\ ~IsSet(result)
    /\ \E e \in TransportErrors : Fail(e)
    /\ UNCHANGED <<args, rest, task_id, requests, bs_data, result, bs_obj, decodeVars, ret>>

\* b64_bytes = base64.b64decode(bs_obj[0], validate=True)
DecodeBase64 ==
    /\ pc = "DECODING"
    /\ ~IsSet(b64_bytes)
    /\ \E py \in Interpreters :
       LET r == B64Decode(py, bs_obj.items[1])
       IN  IF r.ok
           THEN /\ b64_bytes' = r.val
                /\ UNCHANGED <<pc, trace, error>>
           ELSE /\ Fail(r.err)
                /\ UNCHANGED b64_bytes
    /\ UNCHANGED <<args, rest, task_id, requests, bs_data, result, bs_obj, packed_bytes, json_data, ret>>

\* packed_bytes = zlib.decompress(b64_bytes)
DecodeZlib ==
    /\ pc = "DECODING"
    /\ IsSet(b64_bytes)
    /\ ~IsSet(packed_bytes)
    /\ LET r == ZlibDecompress(b64_bytes)
       IN  IF r.ok
           THEN /\ packed_bytes' = r.val
                /\ UNCHANGED <<pc, trace, error>>
           ELSE /\ Fail(r.err)
                /\ UNCHANGED packed_bytes
    /\ UNCHANGED <<args, rest, task_id, requests, bs_data, result, bs_obj, b64_bytes, json_data, ret>>

\* json_data = msgpack.unpackb(packed_bytes, raw=False)
DecodeMsgpack ==
    /\ pc = "DECODING"
    /\ IsSet(packed_bytes)
    /\ ~IsSet(json_data)
    /\ LET r == MsgpackUnpack(packed_bytes)
       IN  IF r.ok
           THEN /\ json_data' = r.val
                /\ UNCHANGED <<pc, trace, error>>
           ELSE /\ Fail(r.err)
                /\ UNCHANGED json_data
    /\ UNCHANGED <<args, rest, task_id, requests, bs_data, result, bs_obj, b64_bytes, packed_bytes, ret>>

\* data = MontyDecoder().process_decoded(json_data["data"]); return data
DecodeMonty ==
    /\ pc = "DECODING"
    /\ IsSet(json_data)
    /\ LET r == ProcessDecoded(json_data)
       IN  IF r.ok
           THEN /\ ret' = r.val
                /\ Goto("DONE")
                /\ UNCHANGED error
           ELSE /\ Fail(r.err)
                /\ UNCHANGED ret
    /\ UNCHANGED <<args, rest, task_id, requests, bs_data, result, bs_obj, decodeVars>>

Next ==
    \/ IssueDocFetch
    \/ DocFetchReturns
    \/ DocFetchFails
    \/ Resolve
    \/ IssueObjectFetch
    \/ ObjectFetchReturns
    \/ ObjectFetchFails
    \/ CheckObject
    \/ DecodeBase64
    \/ DecodeZlib
    \/ DecodeMsgpack
    \/ DecodeMonty

Spec == Init /\ [][Next]_vars

\* ------------------------------------------------------- several calls at once
\* calls made on one client from several threads: the variables of a call are
\* the locals of its frame, and a thread switch can fall between any two steps
NumCalls == 2
Calls == 1..NumCalls

\* the frame of the running call
Frame ==
    [method |-> method, material_id |-> material_id, path_type |-> path_type,
     line_mode |-> line_mode, task_id |-> task_id, pc |-> pc, trace |-> trace,
     requests |-> requests, bs_data |-> bs_data, result |-> result, bs_obj |-> bs_obj,
     b64_bytes |-> b64_bytes, packed_bytes |-> packed_bytes, json_data |-> json_data,
     ret |-> ret, error |-> error]

\* the frame of a call that has just been entered
NewFrame(m, mid, pt, lm, tid) ==
    [method |-> m, material_id |-> mid, path_type |-> pt, line_mode |-> lm,
     task_id |-> tid, pc |-> "START", trace |-> <<"START">>, requests |-> <<>>,
     bs_data |-> Unset, result |-> Unset, bs_obj |-> Unset, b64_bytes |-> Unset,
     packed_bytes |-> Unset, json_data |-> Unset, ret |-> Unset, error |-> None]

\* path_type: BSPathType = BSPathType.setyawan_curtarolo
DefaultPathType == "setyawan_curtarolo"

\* the arguments a call can be made with, path_type left at its default
CallArgs ==
    {[method |-> BSMaterial, material_id |-> mid, path_type |-> DefaultPathType,
      line_mode |-> lm] : mid \in MaterialIds, lm \in BOOLEAN}
    \cup {[method |-> DosMaterial, material_id |-> mid] : mid \in MaterialIds}
    \cup {[method |-> m, task_id |-> tid] : m \in TaskMethods, tid \in TaskIds}

\* the methods of BandStructureRester and those of DosRester: the calls that run
\* at once are calls on one client
Resters == {{BSMaterial, BSTask}, {DosMaterial, DosTask}}

Enter(a) ==
    NewFrame(a.method,
             IF a.method \in MaterialMethods THEN a.material_id ELSE None,
             IF a.method = BSMaterial THEN a.path_type ELSE None,
             IF a.method = BSMaterial THEN a.line_mode ELSE None,
             IF a.method \in TaskMethods THEN a.task_id ELSE None)

\* the running call is the one with frame f
Runs(f) ==
    /\ method = f.method
    /\ material_id = f.material_id
    /\ path_type = f.path_type
    /\ line_mode = f.line_mode
    /\ task_id = f.task_id
    /\ pc = f.pc
    /\ trace = f.trace
    /\ requests = f.requests
    /\ bs_data = f.bs_data
    /\ result = f.result
    /\ bs_obj = f.bs_obj
    /\ b64_bytes = f.b64_bytes
    /\ packed_bytes = f.packed_bytes
    /\ json_data = f.json_data
    /\ ret = f.ret
    /\ error = f.error

\* what the endpoints hold while the calls run: a document with line-mode entries
\* and a dos entry, one without a bandstructure mapping, one whose total map has
\* no "1"; an object that decodes, one that is not base64, one that is null
ConcDocs ==
    <<[bandstructure |-> Dict([p \in PathTypes |-> Entry(TaskNames[1])]),
       dos |-> Dict([total |-> Dict([k \in {"1"} |-> Entry(TaskNames[2])])])],
      [bandstructure |-> None,
       dos |-> Dict([total |-> Dict([k \in {"1"} |-> Entry(TaskNames[1])])])],
      [bandstructure |-> None,
       dos |-> Dict([total |-> Dict([k \in {"-1"} |-> Entry(TaskNames[1])])])]>>
ConcResponses ==
    <<Response(List(<<(<<"z", "d", "d", "d">>)>>)),
      Response(List(<<(<<"z", "d", "!", "d">>)>>)),
      Response(None)>>
ConcStore ==
    [docs |-> [m \in MaterialIds |->
                  ConcDocs[CHOOSE i \in 1..Len(ConcDocs) :
                              \/ m = MaterialNames[i]
                              \/ i = Len(ConcDocs) /\ \A k \in 1..(i - 1) : m # MaterialNames[k]]],
     objects |-> [t \in TaskIds |->
                  ConcResponses[CHOOSE i \in 1..Len(ConcResponses) :
                              \/ t = TaskNames[i]
                              \/ i = Len(ConcResponses) /\ \A k \in 1..(i - 1) : t # TaskNames[k]]]]

ConcInit ==
    /\ store = ConcStore
    /\ running = 1
    /\ \E ms \in Resters : \E as \in [Calls -> {a \in CallArgs : a.method \in ms}] :
          /\ frames = [c \in Calls |-> IF c = 1 THEN Unset ELSE Enter(as[c])]
          /\ Runs(Enter(as[1]))
    /\ NoOperator

\* get_data_by_id returns the document the endpoint holds for the material
ConcDocFetchReturns ==
    /\ pc = "RESOLVING_TASK"
    /\ ~IsSet(bs_data)
    /\ bs_data' = ReadField(method, line_mode, store.docs[material_id])
    /\ UNCHANGED <<args, rest, task_id, pc, trace, requests, result, bs_obj, decodeVars, ret, error>>

\* _query_resource returns the answer the endpoint holds for the task
ConcObjectFetchReturns ==
    /\ pc = "FETCHING_OBJECT"
    /\ ~IsSet(result)
    /\ result' = store.objects[task_id]
    /\ UNCHANGED <<args, rest, task_id, pc, trace, requests, bs_data, bs_obj, decodeVars, ret, error>>

\* a thread switch that leaves bs_task_id / dos_task_id behind, as if it were
\* kept on the client instead of in the frame
SwitchSharingTaskId(c) ==
    /\ c # running
    /\ frames[c].pc \notin {"DONE", "FAILED"}
    /\ frames' = [frames EXCEPT ![running] = Frame, ![c] = Unset]
    /\ running' = c
    /\ method' = frames[c].method
    /\ material_id' = frames[c].material_id
    /\ path_type' = frames[c].path_type
    /\ line_mode' = frames[c].line_mode
    /\ task_id' = task_id
    /\ pc' = frames[c].pc
    /\ trace' = frames[c].trace
    /\ requests' = frames[c].requests
    /\ bs_data' = frames[c].bs_data
    /\ result' = frames[c].result
    /\ bs_obj' = frames[c].bs_obj
    /\ b64_bytes' = frames[c].b64_bytes
    /\ packed_bytes' = frames[c].packed_bytes
    /\ json_data' = frames[c].json_data
    /\ ret' = frames[c].ret
    /\ error' = frames[c].error
    /\ UNCHANGED <<store, statsVars>>

\* the thread of call c, which has not ended, is scheduled: the frame of the
\* running call is set aside and that of c is taken up
Switch(c) ==
    /\ c # running
    /\ frames[c].pc \notin {"DONE", "FAILED"}
    /\ frames' = [frames EXCEPT ![running] = Frame, ![c] = Unset]
    /\ running' = c
    /\ method' = frames[c].method
    /\ material_id' = frames[c].material_id
    /\ path_type' = frames[c].path_type
    /\ line_mode' = frames[c].line_mode
    /\ task_id' = frames[c].task_id
    /\ pc' = frames[c].pc
    /\ trace' = frames[c].trace
    /\ requests' = frames[c].requests
    /\ bs_data' = frames[c].bs_data
    /\ result' = frames[c].result
    /\ bs_obj' = frames[c].bs_obj
    /\ b64_bytes' = frames[c].b64_bytes
    /\ packed_bytes' = frames[c].packed_bytes
    /\ json_data' = frames[c].json_data
    /\ ret' = frames[c].ret
    /\ error' = frames[c].error
    /\ UNCHANGED <<store, statsVars>>

ConcNext ==
    \/ IssueDocFetch
    \/ ConcDocFetchReturns
    \/ Resolve
    \/ IssueObjectFetch
    \/ ConcObjectFetchReturns
    \/ CheckObject
    \/ DecodeBase64
    \/ DecodeZlib
    \/ DecodeMsgpack
    \/ DecodeMonty
    \/ \E c \in Calls : Switch(c)

SpecConc == ConcInit /\ [][ConcNext]_<<vars, rest>>

\* ------------------------------------------------------------ SearchStatsQuery
\* one SearchStatsQuery instance serving the requests of an endpoint: a request
\* calls query, the pipeline it returns is run on the store, and post_process is
\* called with the documents found
Requests == 1..NumRequests

\* valid_numeric_fields, the float fields of the search document
Fields == {"band_gap"}
\* numbers stand for the float values of a field and of min_val / max_val
Vals == 0..MaxVal
Optional(S) == {None} \cup {Number(v) : v \in S}

\* the parameters of query
QueryArgs ==
    [field : Fields,
     num_samples : Optional(1..MaxDocs - 1),
     min_val : Optional(Vals),
     max_val : Optional(Vals),
     num_points : 1..MaxPoints]

\* the pipeline query builds
Pipeline(a) ==
    LET conds == (IF Truthy(a.min_val) THEN {"$gte"} ELSE {})
                     \cup (IF Truthy(a.max_val) THEN {"$lte"} ELSE {})
        match == IF Truthy(a.min_val) \/ Truthy(a.max_val)
                 THEN <<Dict([s \in {"$match"} |->
                           Dict([f \in {a.field} |->
                               Dict([k \in conds |->
                                   IF k = "$gte" THEN a.min_val.v ELSE a.max_val.v])])])>>
                 ELSE <<>>
        sample == IF Truthy(a.num_samples)
                  THEN <<Dict([s \in {"$sample"} |->
                            Dict([k \in {"size"} |-> a.num_samples.v])])>>
                  ELSE <<>>
        project == <<Dict([s \in {"$project"} |->
                         Dict([k \in {a.field, "_id"} |-> IF k = a.field THEN 1 ELSE 0])])>>
    IN  match \o sample \o project

\* what running the pipeline of a request can find: up to MaxDocs documents, each
\* with the projected field only and a value within the $match range, and at
\* most $sample.size of them
Passes(a, v) ==
    /\ Truthy(a.min_val) => v >= a.min_val.v
    /\ Truthy(a.max_val) => v <= a.max_val.v
Found(a) ==
    {[i \in 1..Len(vs) |-> Dict([f \in {a.field} |-> vs[i]])] :
        vs \in {w \in UNION {[1..n -> Vals] : n \in 0..MaxDocs} :
                   /\ \A i \in 1..Len(w) : Passes(a, w[i])
                   /\ Truthy(a.num_samples) => Len(w) <= a.num_samples.v}}

Min(values) == CHOOSE v \in {values[i] : i \in 1..Len(values)} :
                   \A i \in 1..Len(values) : v <= values[i]
Max(values) == CHOOSE v \in {values[i] : i \in 1..Len(values)} :
                   \A i \in 1..Len(values) : v >= values[i]
RECURSIVE Sum(_)
Sum(values) == IF values = <<>> THEN 0 ELSE Head(values) + Sum(Tail(values))
\* float(np.mean(values)) and float(np.median(values)) as fractions
Mean(values) == [num |-> Sum(values), den |-> Len(values)]
Median(values) ==
    LET sorted == SortSeq(values, LAMBDA x, y : x < y)
        n == Len(values)
    IN  IF n % 2 = 1
        THEN [num |-> sorted[(n + 1) \div 2], den |-> 1]
        ELSE [num |-> sorted[n \div 2] + sorted[(n \div 2) + 1], den |-> 2]

\* gaussian_kde(values): a dataset of one element raises ValueError, and one of
\* equal values has a singular covariance, which raises LinAlgError
GaussianKde(values) ==
    IF Len(values) < 2
    THEN Raise([tag |-> "Error", type |-> "ValueError",
                msg |-> <<"dataset input should have multiple elements">>])
    ELSE IF \A i \in 1..Len(values) : values[i] = values[1]
    THEN Raise(StageError("LinAlgError"))
    ELSE Ok("kernel")

\* post_process(docs) from line 208 on, with the locals num_points, min_val and
\* max_val as read from the instance. The distribution is given by its length,
\* the number of points of np.arange(min_val, max_val, step), which raises
\* ZeroDivisionError for a step of zero
PostProcessResult(num_points, min_val, max_val, docs) ==
    LET field == CHOOSE k \in Keys(docs[1]) : TRUE
        values == [i \in 1..Len(docs) |-> Get(docs[i], field)]
        lo == IF ~Truthy(min_val) THEN Min(values) ELSE min_val.v
        hi == IF ~Truthy(max_val) THEN Max(values) ELSE max_val.v
        kernel == GaussianKde(values)
    IN  IF ~kernel.ok THEN kernel
        ELSE IF num_points = 0 \/ hi = lo
        THEN Raise([tag |-> "Error", type |-> "ZeroDivisionError", msg |-> <<>>])
        ELSE Ok(List(<<[field |-> field,
                        num_samples |-> Len(docs),
                        min |-> lo,
                        max |-> hi,
                        distribution |-> num_points,
                        median |-> Median(values),
                        mean |-> Mean(values)]>>))

NewRequest ==
    [stage |-> "new", args |-> Unset, pipeline |-> Unset, docs |-> Unset,
     num_points |-> Unset, min_val |-> Unset, response |-> Unset]

StatsInit ==
    /\ op = [num_points |-> Unset, min_val |-> Unset, max_val |-> Unset]
    /\ reqs = [r \in Requests |-> NewRequest]
    /\ method = None
    /\ material_id = None
    /\ path_type = None
    /\ line_mode = None
    /\ task_id = None
    /\ pc = "DONE"
    /\ trace = <<>>
    /\ requests = <<>>
    /\ bs_data = Unset
    /\ result = Unset
    /\ bs_obj = Unset
    /\ b64_bytes = Unset
    /\ packed_bytes = Unset
    /\ json_data = Unset
    /\ ret = Unset
    /\ error = None
    /\ SingleCall

\* request r calls query: self.num_points = num_points
Query(r) ==
    /\ reqs[r].stage = "new"
    /\ \E a \in QueryArgs :
          /\ op' = [op EXCEPT !.num_points = a.num_points]
          /\ reqs' = [reqs EXCEPT ![r] = [@ EXCEPT !.stage = "query:175", !.args = a]]
    /\ UNCHANGED <<vars, concVars>>

\* self.min_val = min_val
QuerySetMinVal(r) ==
    /\ reqs[r].stage = "query:175"
    /\ op' = [op EXCEPT !.min_val = reqs[r].args.min_val]
    /\ reqs' = [reqs EXCEPT ![r] = [@ EXCEPT !.stage = "query:176"]]
    /\ UNCHANGED <<vars, concVars>>

\* self.max_val = max_val; the pipeline is built from the parameters and returned
QuerySetMaxVal(r) ==
    /\ reqs[r].stage = "query:176"
    /\ op' = [op EXCEPT !.max_val = reqs[r].args.max_val]
    /\ reqs' = [reqs EXCEPT ![r] =
                  [@ EXCEPT !.stage = "queried", !.pipeline = Pipeline(reqs[r].args)]]
    /\ UNCHANGED <<vars, concVars>>

\* the pipeline of request r is run on the store
Aggregate(r) ==
    /\ reqs[r].stage = "queried"
    /\ \E docs \in Found(reqs[r].args) :
          reqs' = [reqs EXCEPT ![r] = [@ EXCEPT !.stage = "found", !.docs = docs]]
    /\ UNCHANGED <<vars, concVars, op>>

\* post_process is called with the documents of request r: without documents
\* response is never bound; otherwise num_points = self.num_points
PostProcess(r) ==
    /\ reqs[r].stage = "found"
    /\ IF reqs[r].docs = <<>>
       THEN reqs' = [reqs EXCEPT ![r] =
                       [@ EXCEPT !.stage = "done",
                                 !.response = Raise([tag |-> "Error",
                                                     type |-> "UnboundLocalError",
                                                     msg |-> <<"response">>])]]
       ELSE reqs' = [reqs EXCEPT ![r] =
                       [@ EXCEPT !.stage = "post_process:206",
                                 !.num_points = op.num_points]]
    /\ UNCHANGED <<vars, concVars, op>>

\* min_val = self.min_val
PostProcessReadMinVal(r) ==
    /\ reqs[r].stage = "post_process:206"
    /\ reqs' = [reqs EXCEPT ![r] =
                  [@ EXCEPT !.stage = "post_process:207", !.min_val = op.min_val]]
    /\ UNCHANGED <<vars, concVars, op>>

\* max_val = self.max_val, and the rest of post_process; the locals end with the call
PostProcessReadMaxVal(r) ==
    /\ reqs[r].stage = "post_process:207"
    /\ reqs' = [reqs EXCEPT ![r] =
                  [@ EXCEPT !.stage = "done", !.num_points = Unset, !.min_val = Unset,
                            !.response = PostProcessResult(reqs[r].num_points,
                                                           reqs[r].min_val,
                                                           op.max_val, reqs[r].docs)]]
    /\ UNCHANGED <<vars, concVars, op>>

StatsNext ==
    \/ \E r \in Requests : Query(r)
    \/ \E r \in Requests : QuerySetMinVal(r)
    \/ \E r \in Requests : QuerySetMaxVal(r)
    \/ \E r \in Requests : Aggregate(r)
    \/ \E r \in Requests : PostProcess(r)
    \/ \E r \in Requests : PostProcessReadMinVal(r)
    \/ \E r \in Requests : PostProcessReadMaxVal(r)

SpecStats == StatsInit /\ [][StatsNext]_<<vars, rest>>

\* ------------------------------------------------------------------ properties
DocRequests == SelectSeq(requests, LAMBDA q : q.api = "get_data_by_id")
ObjectRequests == SelectSeq(requests, LAMBDA q : q.api = "_query_resource")

\* the message of e contains the token x
Names(e, x) == \E i \in 1..Len(e.msg) : e.msg[i] = x

IsPrefix(s, t) == Len(s) <= Len(t) /\ SubSeq(t, 1, Len(s)) = s

LineCall == method = BSMaterial /\ line_mode
UniformCall == method = BSMaterial /\ ~line_mode
\* the document field has been read
Fetched == IsSet(bs_data)
\* the lookup of the task id in the field that was read has run
Resolved == Fetched /\ pc # "RESOLVING_TASK"

\* the task ids the fetched field stores under the requested path type
LineTaskIds ==
    IF IsNone(bs_data) \/ IsNone(Get(bs_data, path_type))
    THEN {}
    ELSE {Get(Get(bs_data, path_type), "task_id")}

\* the task ids the fetched field stores under total["1"]
TotalTaskIds ==
    IF IsNone(bs_data) THEN {}
    ELSE IF IsNone(Get(bs_data, "total")) THEN {}
    ELSE IF "1" \notin Keys(Get(bs_data, "total")) THEN {}
    ELSE {Get(Get(Get(bs_data, "total"), "1"), "task_id")}

StoredTaskIds == IF LineCall THEN LineTaskIds ELSE TotalTaskIds

\* C1: a line-mode band structure call whose fetched bandstructure field is null
\* has failed with an MPRestError naming the path type and the material id, and
\* has issued no request to the object endpoint.
C1_NullBandstructureFails ==
    (LineCall /\ Resolved /\ IsNone(bs_data)) =>
        /\ pc = "FAILED"
        /\ error.type = "MPRestError"
        /\ Names(error, path_type)
        /\ Names(error, material_id)
        /\ ObjectRequests = <<>>
        /\ ~IsSet(result)

C1_Witness ==
    /\ LineCall /\ Resolved /\ IsNone(bs_data)
    /\ pc = "FAILED"
    /\ path_type = "hinuma"
    /\ Len(DocRequests) = 1

HappyPath == <<"START", "RESOLVING_TASK", "FETCHING_OBJECT", "DECODING", "DONE">>

C2_Shape ==
    method \in MaterialMethods =>
        /\ \/ IsPrefix(trace, HappyPath)
           \/ /\ Len(trace) >= 2
              /\ trace[Len(trace)] = "FAILED"
              /\ IsPrefix(SubSeq(trace, 1, Len(trace) - 1), SubSeq(HappyPath, 1, 4))
        /\ pc = trace[Len(trace)]
        \* the object request follows a successful resolution and carries its task id
        /\ ("FETCHING_OBJECT" \in {trace[i] : i \in 1..Len(trace)} <=> ObjectRequests # <<>>)
        /\ ObjectRequests # <<>> =>
              /\ Resolved
              /\ StoredTaskIds # {}
              /\ task_id \in StoredTaskIds
              /\ ObjectRequests = <<ObjectRequest(task_id)>>
        \* decoding follows an answer that carries a payload
        /\ "DECODING" \in {trace[i] : i \in 1..Len(trace)} =>
              /\ IsSet(result)
              /\ result.data.tag = "list"
              /\ Len(result.data.items) > 0
              /\ bs_obj = result.data
        /\ (IsSet(b64_bytes) \/ IsSet(packed_bytes) \/ IsSet(json_data)) =>
              "DECODING" \in {trace[i] : i \in 1..Len(trace)}
        \* DONE follows the four decode stages
        /\ pc = "DONE" =>
              /\ IsSet(b64_bytes) /\ IsSet(packed_bytes) /\ IsSet(json_data)
              /\ Ok(ret) = ProcessDecoded(json_data)
              /\ IsNone(error)
        /\ pc # "DONE" => ~IsSet(ret)
        /\ pc = "FAILED" <=> ~IsNone(error)

Terminal == pc \in {"DONE", "FAILED"}

\* C2: a material-id call goes through START, RESOLVING_TASK, FETCHING_OBJECT,
\* DECODING, DONE in that order, possibly cut short by FAILED; the object request
\* is issued only after a successful resolution and with the resolved task id,
\* decoding only starts on a fetched payload, DONE only follows a full decode,
\* and nothing changes once the call is DONE or FAILED.
C2_StageOrder == [](C2_Shape) /\ [][Terminal => UNCHANGED vars]_vars

C2_Witness ==
    /\ method \in MaterialMethods
    /\ trace = HappyPath
    /\ ret.tag = "object"

\* FAILED entered from each of the stages that perform work
C2_FailedFromResolving == trace = <<"START", "RESOLVING_TASK", "FAILED">>
C2_FailedFromFetching == trace = <<"START", "RESOLVING_TASK", "FETCHING_OBJECT", "FAILED">>
C2_FailedFromDecoding ==
    trace = <<"START", "RESOLVING_TASK", "FETCHING_OBJECT", "DECODING", "FAILED">>

\* a task id is in hand: passed by the caller or resolved from the document
HasTaskId == method \in TaskMethods \/ ObjectRequests # <<>>

\* C3: a task-id call that returns has fetched no document, has issued the object
\* request for its task id and returns the decoded object, not the fetched payload.
C3_TaskIdVariantsDecode ==
    (method \in TaskMethods /\ pc = "DONE") =>
        /\ DocRequests = <<>>
        /\ ObjectRequests = <<ObjectRequest(task_id)>>
        /\ ret.tag = "object"

\* C4: a line-mode call on a non-null bandstructure mapping issues the object
\* request with the task_id of the entry of its path type, and without such an
\* entry fails with an MPRestError naming the path type, using no task id.
C4_LineModeResolution ==
    (LineCall /\ Resolved /\ ~IsNone(bs_data)) =>
        IF ~IsNone(Get(bs_data, path_type))
        THEN /\ ObjectRequests = <<ObjectRequest(Get(Get(bs_data, path_type), "task_id"))>>
             /\ task_id = Get(Get(bs_data, path_type), "task_id")
             /\ Len(requests) = 2
        ELSE /\ pc = "FAILED"
             /\ error.type = "MPRestError"
             /\ Names(error, path_type)
             /\ ObjectRequests = <<>>
             /\ IsNone(task_id)

C4_Witness ==
    /\ LineCall /\ Resolved /\ ~IsNone(bs_data)
    /\ path_type = "hinuma"
    /\ Get(bs_data, "setyawan_curtarolo") = Entry("mp-1")
    /\ IsNone(Get(bs_data, "hinuma"))
    /\ pc = "FAILED"

\* the uniform branch finds no total entry: the field is null, or total is null
\* or empty
TotalAbsent ==
    \/ IsNone(bs_data)
    \/ IsNone(Get(bs_data, "total"))
    \/ Keys(Get(bs_data, "total")) = {}

UniformCommon ==
    /\ DocRequests = <<DocRequest(material_id, <<"dos">>)>>
    /\ bs_data \in DosValues
    /\ TotalAbsent =>
          /\ pc = "FAILED"
          /\ error = MPRestError(<<"No uniform band structure data found for ", material_id>>)
          /\ ObjectRequests = <<>>

\* C5 as stated: a uniform call asks for the dos field only, fails with "No uniform
\* band structure data" when dos is null or total is absent, and in every other
\* case issues the object request with total["1"].task_id.
C5_UniformAsStated ==
    (UniformCall /\ Resolved) =>
        /\ UniformCommon
        /\ ~TotalAbsent =>
              \E t \in TotalTaskIds : ObjectRequests = <<ObjectRequest(t)>>

\* C5 amended: as stated, except that a non-empty total without the key "1" makes
\* the call fail with a KeyError, no object request being issued.
C5_UniformResolution ==
    (UniformCall /\ Resolved) =>
        /\ UniformCommon
        /\ (~TotalAbsent /\ "1" \in Keys(Get(bs_data, "total"))) =>
              /\ ObjectRequests = <<ObjectRequest(Get(Get(Get(bs_data, "total"), "1"), "task_id"))>>
              /\ task_id = Get(Get(Get(bs_data, "total"), "1"), "task_id")
        /\ (~TotalAbsent /\ "1" \notin Keys(Get(bs_data, "total"))) =>
              /\ pc = "FAILED"
              /\ error.type = "KeyError"
              /\ ObjectRequests = <<>>

C5_Witness ==
    /\ UniformCall /\ Resolved
    /\ path_type = "hinuma"
    /\ bs_data = Dict([total |-> Dict([k \in {"1"} |-> Entry("mp-2")])])
    /\ ObjectRequests = <<ObjectRequest("mp-2")>>
    /\ pc = "DONE"

\* C6: get_dos_from_material_id resolves dos = {"total": {"1": {"task_id": t}}} to
\* t and issues the object request with t; fails with the MPRestError "No density
\* of states data" on dos = null; fails with a KeyError, which is not an
\* MPRestError, on a total without the key "1"; the failures issue no object request.
C6_DosResolution ==
    (method = DosMaterial /\ Resolved) =>
        IF IsNone(bs_data)
        THEN /\ pc = "FAILED"
             /\ error = MPRestError(<<"No density of states data found for ", material_id>>)
             /\ ObjectRequests = <<>>
        ELSE IF IsNone(Get(bs_data, "total")) THEN pc = "FAILED"
        ELSE IF "1" \in Keys(Get(bs_data, "total"))
        THEN /\ ObjectRequests = <<ObjectRequest(Get(Get(Get(bs_data, "total"), "1"), "task_id"))>>
             /\ task_id = Get(Get(Get(bs_data, "total"), "1"), "task_id")
        ELSE /\ pc = "FAILED"
             /\ error.type = "KeyError"
             /\ error.type # "MPRestError"
             /\ ObjectRequests = <<>>
             /\ IsNone(task_id)
             /\ ~IsSet(ret)

C6_Witness ==
    /\ method = DosMaterial /\ Resolved
    /\ bs_data = Dict([total |-> Dict(<<>>)])
    /\ pc = "FAILED"
    /\ error.type = "KeyError"

\* the check of the answer of the object endpoint has run
Answered == IsSet(result) /\ pc # "FETCHING_OBJECT"

\* C7: every object request is the single-item, single-chunk, untyped query on
\* "object" for the task id; the call fails with "No object found" exactly when
\* the answer has no data field or a null one, and otherwise hands the data field
\* on; no failure before the object request carries that message.
C7_ObjectFetch ==
    /\ \A i \in 1..Len(requests) :
          requests[i].api = "_query_resource" =>
              /\ requests[i].suburl = "object"
              /\ requests[i].num_chunks = 1
              /\ requests[i].chunk_size = 1
              /\ requests[i].use_document_model = FALSE
              /\ requests[i].criteria = [task_id |-> task_id, _all_fields |-> TRUE]
    /\ Answered =>
          /\ (result.data.tag \in {"Missing", "None"}) <=>
                (pc = "FAILED" /\ error = MPRestError(<<"No object found">>))
          /\ result.data.tag \notin {"Missing", "None"} =>
                IF method \in TaskMethods
                THEN pc = "DONE" /\ ret = result.data
                ELSE bs_obj = result.data
    /\ (pc = "FAILED" /\ ObjectRequests = <<>>) =>
          error # MPRestError(<<"No object found">>)

C7_Witness ==
    /\ method = DosMaterial
    /\ Answered
    /\ result.data.tag = "None"
    /\ pc = "FAILED"
    /\ error.msg = <<"No object found">>

C8_AtMostOnce ==
    /\ Len(DocRequests) <= 1
    /\ Len(ObjectRequests) <= 1
    /\ ~IsNone(error) => pc = "FAILED"
    \* a failed request surfaces the exception of the REST client as it is
    /\ (pc = "FAILED" /\ method \in MaterialMethods /\ ~Fetched) => error \in TransportErrors
    /\ (pc = "FAILED" /\ ObjectRequests # <<>> /\ ~IsSet(result)) => error \in TransportErrors

C8_FailureIsFinal ==
    /\ pc = "FAILED" => UNCHANGED vars
    /\ (IsNone(error) /\ ~IsNone(error')) =>
          /\ pc' = "FAILED"
          /\ requests' = requests
          /\ decodeVars' = decodeVars
          /\ ret' = ret

\* C8: a call issues at most one document request and at most one object request;
\* the step in which a request, the lookup or a decode stage fails issues nothing
\* and decodes nothing, makes the call FAILED with that error, and nothing happens
\* after it.
C8_NoRetry == [](C8_AtMostOnce) /\ [][C8_FailureIsFinal]_vars

C8_Witness ==
    /\ trace = <<"START", "RESOLVING_TASK", "FETCHING_OBJECT", "FAILED">>
    /\ ~IsSet(result)
    /\ error \in TransportErrors
    /\ Len(DocRequests) = 1
    /\ Len(ObjectRequests) = 1

InDecode == \E i \in 1..Len(trace) : trace[i] = "DECODING"

DataChars(s) == SelectSeq(s, LAMBDA c : c # "=")

InvalidCharacters(s) == \E i \in 1..Len(s) : s[i] \notin {"z", "d", "="}

\* the padding of s is not the padding of RFC 4648: "=" anywhere but at the end,
\* or a number of "=" other than the one that completes the last group of four
InvalidPadding(s) ==
    LET n == Len(DataChars(s))
        p == Len(s) - n
    IN  \/ \E i \in 1..(Len(s) - 1) : s[i] = "=" /\ s[i + 1] # "="
        \/ n % 4 = 0 /\ p # 0
        \/ n % 4 = 1
        \/ n % 4 = 2 /\ p # 2
        \/ n % 4 = 3 /\ p # 1

\* padding added to a string whose data characters already fill whole groups
SurplusPadding(s) ==
    LET n == Len(DataChars(s))
    IN  /\ ~InvalidCharacters(s)
        /\ n > 0
        /\ n % 4 = 0
        /\ Len(s) > n
        /\ \A i \in 1..n : s[i] # "="

FailedStage ==
    IF ~IsSet(b64_bytes) THEN {"binascii.Error"}
    ELSE IF ~IsSet(packed_bytes) THEN {"zlib.error"}
    ELSE IF ~IsSet(json_data)
         THEN {"ValueError", "msgpack.ExtraData", "msgpack.FormatError"}
    ELSE {"KeyError", "ImportError"}

\* the stages run in order, each on the output of the one before; a failed stage
\* ends the call with the error of that stage and without a return value
DecodeStages ==
    /\ IsSet(packed_bytes) => IsSet(b64_bytes)
    /\ IsSet(json_data) => IsSet(packed_bytes)
    /\ IsSet(ret) => IsSet(json_data)
    /\ IsSet(b64_bytes) => b64_bytes.b = DataChars(bs_obj.items[1])
    /\ IsSet(packed_bytes) => b64_bytes.b = <<"z">> \o packed_bytes.b
    /\ IsSet(json_data) =>
          \/ packed_bytes.b = <<"z">> /\ json_data = Dict(<<>>)
          \/ packed_bytes.b = <<"d", "z">> /\ json_data = Dict([data |-> Dict(<<>>)])
          \/ /\ Len(packed_bytes.b) = 3
             /\ SubSeq(packed_bytes.b, 1, 2) = <<"d", "d">>
             /\ Keys(json_data) = {"data"}
             /\ Get(Get(json_data, "data"), "@class") = packed_bytes.b[3]
    /\ IsSet(ret) =>
          /\ pc = "DONE"
          /\ "data" \in Keys(json_data)
          /\ ret = IF Keys(Get(json_data, "data")) = {}
                   THEN Get(json_data, "data")
                   ELSE [tag |-> "object", from |-> Get(json_data, "data")]
    /\ pc = "FAILED" =>
          /\ ~IsSet(ret)
          /\ error.type \in FailedStage
    /\ pc = "DONE" => IsSet(ret)

\* the base64 stage never produces bytes from the payload
RejectedByBase64 ==
    /\ ~IsSet(b64_bytes)
    /\ pc \in {"DECODING", "FAILED"}

\* C9: decoding is all-or-nothing with the stages in order, and every payload
\* with a character outside the alphabet or with padding that is not the padding
\* of its length fails in the base64 stage.
C9_DecodeAsStated ==
    InDecode =>
        /\ DecodeStages
        /\ (InvalidCharacters(bs_obj.items[1]) \/ InvalidPadding(bs_obj.items[1])) =>
              RejectedByBase64

\* a payload with invalid padding that some interpreter decodes
AcceptedSomewhere(s) == \E py \in Interpreters : B64Valid(py, s)

\* what holds of the decode on every interpreter: the stages in order, and the
\* base64 stage rejecting what no interpreter accepts
C9_DecodeOnEveryInterpreter ==
    InDecode =>
        /\ DecodeStages
        /\ ~AcceptedSomewhere(bs_obj.items[1]) => RejectedByBase64

C9_FailedInBase64 ==
    /\ InDecode
    /\ bs_obj.items[1] = <<"z", "d", "!", "d">>
    /\ pc = "FAILED"
    /\ error.type = "binascii.Error"

\* C10: an error raised by the lookup of the task id, by the check of the answer
\* of the object endpoint or by the check for an empty payload carries the
\* material id or the task id of the call.
C10_ErrorsCarryIdentifier ==
    (pc = "FAILED" /\ error \notin TransportErrors /\ ~InDecode) =>
        \/ method \in MaterialMethods /\ Names(error, material_id)
        \/ HasTaskId /\ Names(error, task_id)

\* the object endpoint answered the call with an empty data collection
EmptyPayload ==
    /\ Answered
    /\ result.data.tag = "list"
    /\ result.data.items = <<>>

\* the call can take a step that does not depend on what the services answer;
\* while decoding, the stage whose input is the last output present is the one
\* that runs
CanStep ==
    CASE pc = "START" -> ENABLED IssueDocFetch \/ ENABLED IssueObjectFetch
      [] pc = "RESOLVING_TASK" -> ENABLED DocFetchFails \/ ENABLED Resolve
      [] pc = "FETCHING_OBJECT" -> ENABLED ObjectFetchFails \/ ENABLED CheckObject
      [] pc = "DECODING" -> \/ ~IsSet(b64_bytes)
                            \/ IsSet(b64_bytes) /\ ~IsSet(packed_bytes)
                            \/ IsSet(packed_bytes) /\ ~IsSet(json_data)
                            \/ IsSet(json_data)
      [] OTHER -> FALSE

\* C11: a retrieval call, by material id or by task id, that has not ended can
\* take a step; it ends DONE with a decoded object as return value and no error,
\* or FAILED with an error and no return value; on an empty data collection it
\* fails with the "No ... object found." error of its method, decoding nothing.
C11_ObjectOrError ==
    /\ pc \notin {"DONE", "FAILED"} => CanStep
    /\ IsSet(ret) <=> pc = "DONE"
    /\ ~IsNone(error) <=> pc = "FAILED"
    /\ pc = "DONE" => ret.tag = "object"
    /\ pc = "FAILED" => error.tag = "Error"
    /\ EmptyPayload =>
          /\ pc = "FAILED"
          /\ error = MPRestError(<<IF method \in {BSMaterial, BSTask}
                                   THEN "No band structure object found."
                                   ELSE "No density of states object found.">>)
          /\ ~IsSet(b64_bytes)

\* the part of C11 that holds of the material-id calls: an empty data collection
\* fails with the error of the method and nothing is decoded
C11_EmptyPayloadFails ==
    (method \in MaterialMethods /\ EmptyPayload) =>
        /\ pc = "FAILED"
        /\ error = MPRestError(<<IF method = BSMaterial
                                 THEN "No band structure object found."
                                 ELSE "No density of states object found.">>)
        /\ ~IsSet(b64_bytes)

\* the frame of call c, running or set aside
FrameOf(c) == IF c = running THEN Frame ELSE frames[c]

Outcome(r, q) ==
    [ret |-> IF r.ok THEN r.val ELSE Unset,
     error |-> IF r.ok THEN None ELSE r.err,
     requests |-> q]

\* the decode chain applied to a payload in one go
DecodePayload(py, payload) ==
    LET a == B64Decode(py, payload.items[1]) IN
    IF ~a.ok THEN a ELSE
    LET b == ZlibDecompress(a.val) IN
    IF ~b.ok THEN b ELSE
    LET c == MsgpackUnpack(b.val) IN
    IF ~c.ok THEN c ELSE ProcessDecoded(c.val)

\* return value, error and requests of the call of frame f when it runs from
\* start to end on its own, on interpreter py, against the contents of the
\* endpoints
Alone(py, f) ==
    IF f.method \in TaskMethods
    THEN Outcome(FromTaskId(store.objects[f.task_id]), <<ObjectRequest(f.task_id)>>)
    ELSE
    LET doc_req == DocRequest(f.material_id, RequestedFields(f.method, f.line_mode))
        field == ReadField(f.method, f.line_mode, store.docs[f.material_id])
        t == ResolveTask(f.method, f.line_mode, f.path_type, f.material_id, field)
    IN  IF ~t.ok THEN Outcome(t, <<doc_req>>) ELSE
        LET q == <<doc_req, ObjectRequest(t.val)>>
            r == FromTaskId(store.objects[t.val])
        IN  IF ~r.ok THEN Outcome(r, q)
            ELSE IF ~Truthy(r.val) THEN Outcome(Raise(NoObjectError(f.method)), q)
            ELSE Outcome(DecodePayload(py, r.val), q)

C12_Outcome ==
    \E py \in Interpreters :
        \A c \in Calls :
            /\ IsPrefix(FrameOf(c).requests, Alone(py, FrameOf(c)).requests)
            /\ FrameOf(c).pc \in {"DONE", "FAILED"} =>
                  /\ FrameOf(c).ret = Alone(py, FrameOf(c)).ret
                  /\ FrameOf(c).error = Alone(py, FrameOf(c)).error
                  /\ FrameOf(c).requests = Alone(py, FrameOf(c)).requests

C12_Step ==
    /\ store' = store
    /\ \A c \in Calls : (c # running \/ running' # running) => FrameOf(c)' = FrameOf(c)

\* C12: under every interleaving of the steps of the calls, each call issues the
\* requests and ends with the return value or error it has when run alone against
\* the same contents of the endpoints (a second call for the same identifier
\* issues its own document and object request), and a step changes nothing but
\* the frame of the call that takes it.
C12_Independent == [](C12_Outcome) /\ [][C12_Step]_<<vars, rest>>

C12_Witness ==
    /\ \A c \in Calls :
          /\ FrameOf(c).pc = "DONE"
          /\ FrameOf(c).method = DosMaterial
          /\ FrameOf(c).material_id = MaterialNames[2]
          /\ Len(FrameOf(c).requests) = 2
    /\ running = 1

\* the stage of pipeline p at position i has the key name
IsStage(p, i, name) == i \in 1..Len(p) /\ Keys(p[i]) = {name}
HasMatch(p) == \E i \in 1..Len(p) : IsStage(p, i, "$match")
Specified(v) == ~IsNone(v)

\* C13: the pipeline of a request has a $match stage with field >= min_val
\* whenever min_val was given and with field <= max_val whenever max_val was
\* given, zero included, and none when neither was given; the $match stage is
\* first, only a $sample stage can follow it, and the $project stage on the field
\* is last.
C13_MatchWheneverSpecified ==
    \A r \in Requests :
        reqs[r].stage \notin {"new", "query:175", "query:176"} =>
            LET a == reqs[r].args
                p == reqs[r].pipeline
                cond == Get(Get(p[1], "$match"), a.field)
            IN  /\ Specified(a.min_val) =>
                      /\ IsStage(p, 1, "$match")
                      /\ "$gte" \in Keys(cond)
                      /\ Get(cond, "$gte") = a.min_val.v
                /\ Specified(a.max_val) =>
                      /\ IsStage(p, 1, "$match")
                      /\ "$lte" \in Keys(cond)
                      /\ Get(cond, "$lte") = a.max_val.v
                /\ (~Specified(a.min_val) /\ ~Specified(a.max_val)) => ~HasMatch(p)
                /\ \A i \in 2..Len(p) : ~IsStage(p, i, "$match")
                /\ \A i \in 1..(Len(p) - 1) :
                      IsStage(p, i, "$match") \/ IsStage(p, i, "$sample")
                /\ p[Len(p)] = Dict([s \in {"$project"} |->
                                  Dict([k \in {a.field, "_id"} |->
                                      IF k = a.field THEN 1 ELSE 0])])

\* C14: the response post_process gives a request is the one computed from the
\* num_points, min_val and max_val of the query call of that request.
C14_OwnRequestValues ==
    \A r \in Requests :
        (reqs[r].stage = "done" /\ reqs[r].docs # <<>>) =>
            reqs[r].response =
                PostProcessResult(reqs[r].args.num_points, reqs[r].args.min_val,
                                  reqs[r].args.max_val, reqs[r].docs)

====
